---- MODULE Spec2Model ----
(***************************************************************************)
(* A state-machine model of minko's Skinning component                     *)
(* (framework/src/minko/component/Skinning.cpp).                           *)
(*                                                                         *)
(* Floats are modelled by integers; time is counted in clock() ticks, with *)
(* ClocksPerSec ticks to the second.  Every scene node that carries a      *)
(* Surface owns its geometry, so a geometry is named by its node.          *)
(***************************************************************************)
EXTENDS Integers, Sequences, FiniteSets, TLC

\* ------------------------------------------------------------------ bounds
MaxClock == 2
MaxBoneBuffers == 2
MaxExtraBones == 1
MantissaBits == 4           \* significant bits of a float
FracBits == 3               \* a float is a multiple of 2^-FracBits
MaxThirdWeight == 3         \* three bones weigh w, w and 1 - 2w, w up to this many units

\* ------------------------------------------------------- program constants
MAX_NUM_BONES_PER_VERTEX == 8
boneVertexSize == 16
ClocksPerSec == 2

PNAME_NUM_BONES == "geometry.numBones"
PNAME_BONE_MATRICES == "geometry.boneMatrices"
ATTRNAME_POSITION == "position"
ATTRNAME_NORMAL == "normal"

SkinningMethod == {"SOFTWARE", "HARDWARE", "HARDWARE_WITHOUT_DQ"}

\* ------------------------------------------------------------- scene graph
NoNode == "none"
SceneRoots == {"r1", "r2"}
Nodes == {"a", "c", "k"}
\* the nodes the component gets bound to
Targetable == {"a", "c"}
MayBeChildOf == [a |-> {"r1"}, c |-> {"r2", "a"}, k |-> {"a"}]

\* ------------------------------------------------------------------- maps
MapSet(m, k, v) == [x \in (DOMAIN m) \cup {k} |-> IF x = k THEN v ELSE m[x]]
MapErase(m, k) == [x \in (DOMAIN m) \ {k} |-> m[x]]
EmptyMap == [x \in {} |-> 0]

\* ------------------------------------------------------------------ float
\* A float is an integer number of units of 1/Unit, kept to MantissaBits
\* significant bits: binary32 scaled down, rounding to nearest, ties to even,
\* with the unit as the spacing of the smallest values.
RECURSIVE Pow2(_)
Pow2(k) == IF k = 0 THEN 1 ELSE 2 * Pow2(k - 1)
Unit == Pow2(FracBits)
\* the floats below MantissaLimit units are the integers
MantissaLimit == Pow2(MantissaBits)
Float(n) == n * Unit
Abs(n) == IF n < 0 THEN -n ELSE n
\* the spacing of the floats around num/den units
RECURSIVE UlpFrom(_, _, _)
UlpFrom(num, den, u) ==
    IF num < u * MantissaLimit * den THEN u ELSE UlpFrom(num, den, 2 * u)
\* round to nearest, ties to even: q spacings of u and a remainder r out of d
Nearest(q, r, d, u) ==
    IF 2 * r < d THEN q * u
    ELSE IF 2 * r > d THEN (q + 1) * u
    ELSE IF q % 2 = 0 THEN q * u ELSE (q + 1) * u
RoundAt(num, den, u) == Nearest(num \div (den * u), num % (den * u), den * u, u)
\* the float nearest to num/den units, for num >= 0
RoundPos(num, den) == RoundAt(num, den, UlpFrom(num, den, 1))
Sign(n) == IF n < 0 THEN -1 ELSE 1
RoundQ(num, den) == Sign(num) * RoundPos(Abs(num), den)
\* float addition and multiplication of two floats; adding 0 and
\* multiplying by 0 or 1 are exact
FAdd(a, b) ==
    IF a = 0 THEN b ELSE IF b = 0 THEN a ELSE RoundQ(a + b, 1)
FMul(a, b) ==
    IF a = 0 \/ b = 0 THEN 0
    ELSE IF a = Unit THEN b ELSE IF b = Unit THEN a ELSE RoundQ(a * b, Unit)

\* ------------------------------------------------------------------- Skin
Identity ==
    <<Float(1), 0, 0, 0,  0, Float(1), 0, 0,  0, 0, Float(1), 0,  0, 0, 0, Float(1)>>
\* x -> 1 - x (a reflection followed by a translation), y and z kept
Flip ==
    <<Float(-1), 0, 0, Float(1),  0, Float(1), 0, 0,  0, 0, Float(1), 0,  0, 0, 0, Float(1)>>

Bone(id, weight) == [boneId |-> id, boneWeight |-> weight]

SkinOK ==
    [null |-> FALSE, numVertices |-> 2, numBones |-> 2, numFrames |-> 2, duration |-> 2,
     bones |-> << <<Bone(0, Float(1))>>, <<Bone(1, Float(1)), Bone(0, 0)>> >>,
     matrices |-> << Identity \o Identity, Flip \o Flip >>]
SkinZeroDuration == [SkinOK EXCEPT !.duration = 0]

\* skins for the packing of the bone vertex buffer: vertex 0 has k0 bones and
\* vertex 1 has k1 bones, taken in order from a fixed list of (id, weight)
BoneList ==
    <<Bone(2, 5), Bone(5, 3), Bone(9, 2), Bone(1, 7), Bone(3, 4),
      Bone(4, 6), Bone(6, 8), Bone(7, 9), Bone(8, 1), Bone(10, 3)>>
MaxVertexBones == MAX_NUM_BONES_PER_VERTEX + MaxExtraBones
PackSkin(k0, k1) ==
    [null |-> FALSE, numVertices |-> 2, numBones |-> 11, numFrames |-> 1, duration |-> 2,
     bones |-> << SubSeq(BoneList, 1, k0), SubSeq(BoneList, 1, k1) >>,
     matrices |-> << <<>> >>]
NullSkin == [PackSkin(0, 0) EXCEPT !.null = TRUE]

RECURSIVE MaxLen(_)
MaxLen(lists) ==
    IF lists = <<>> THEN 0
    ELSE LET rest == MaxLen(Tail(lists))
         IN  IF Len(Head(lists)) > rest THEN Len(Head(lists)) ELSE rest
maxNumVertexBones(s) == MaxLen(s.bones)
numVertexBones(s, vId) == Len(s.bones[vId + 1])
vertexBoneId(s, vId, j) == s.bones[vId + 1][j + 1].boneId
vertexBoneWeight(s, vId, j) == s.bones[vId + 1][j + 1].boneWeight

\* Skin::getFrameId: the frame an elapsed time falls in, counted from the
\* start of the animation without wrapping
getFrameId(s, elapsed) ==
    IF s.duration = 0 THEN 0 ELSE (elapsed * s.numFrames) \div s.duration

\* ------------------------------------------------------------- geometries
Attr(name, size, offset) == [name |-> name, size |-> size, offset |-> offset]
SurfaceKinds == {"full", "split", "posOnly", "fewVerts", "noPosition", "noSurface"}

\* the vertex buffers of a surface's geometry: stride and named attributes
Layout(kind) ==
    CASE kind = "full" ->
            << [vertexSize |-> 7,
                attributes |-> <<Attr("position", 3, 0), Attr("normal", 3, 3), Attr("uv", 1, 6)>>] >>
      [] kind = "fewVerts" ->
            << [vertexSize |-> 7,
                attributes |-> <<Attr("position", 3, 0), Attr("normal", 3, 3), Attr("uv", 1, 6)>>] >>
      [] kind = "split" ->
            << [vertexSize |-> 3, attributes |-> <<Attr("position", 3, 0)>>],
               [vertexSize |-> 4, attributes |-> <<Attr("uv", 1, 0), Attr("normal", 3, 1)>>] >>
      [] kind = "posOnly" ->
            << [vertexSize |-> 4, attributes |-> <<Attr("uv", 1, 0), Attr("position", 3, 1)>>] >>
      [] kind = "noPosition" ->
            << [vertexSize |-> 4, attributes |-> <<Attr("uv", 1, 0), Attr("normal", 3, 1)>>] >>
      [] OTHER -> << >>

KindVertices(kind) == IF kind = "fewVerts" THEN 1 ELSE 2

\* the bind pose: the floats of buffer b before anything deformed them
BindData(kind, b) ==
    [i \in 1..(Layout(kind)[b].vertexSize * KindVertices(kind)) |-> Float(i + b)]

NoProps == [numBones |-> <<>>, boneMatrices |-> <<>>]
NewGeometry(kind) ==
    [data |-> [b \in 1..Len(Layout(kind)) |-> BindData(kind, b)],
     gpu |-> [b \in 1..Len(Layout(kind)) |-> BindData(kind, b)],
     boneBuffers |-> 0,
     props |-> NoProps]

\* the scenes the component is run in: which surface each node carries
SceneBoth == [a |-> "full", c |-> "posOnly", k |-> "noSurface"]
SceneOne == [a |-> "split", c |-> "fewVerts", k |-> "noSurface"]
SceneNone == [a |-> "noPosition", c |-> "noSurface", k |-> "noSurface"]

\* the runs of the component: requested method, skin and scene
Config(m, s, scene) == [method |-> m, skin |-> s, scene |-> scene]
Configs ==
    { Config("SOFTWARE", SkinOK, scene) : scene \in {SceneBoth, SceneOne, SceneNone} }
    \cup { Config("HARDWARE", SkinOK, scene) : scene \in {SceneOne, SceneNone} }
    \cup { Config("HARDWARE_WITHOUT_DQ", SkinOK, SceneOne),
           Config("SOFTWARE", SkinZeroDuration, SceneOne),
           Config("HARDWARE", SkinZeroDuration, SceneOne) }

\* ------------------------------------------------------------------ state
VARIABLES
    pc,                     \* "constructed", "initialized" or "failed"
    skin,                   \* _skin
    context,                \* _context is not null
    method,                 \* _method
    boneVertexBuffer,       \* _boneVertexBuffer
    targetGeometry,         \* _targetGeometry: node -> geometry
    targetStartTime,        \* _targetStartTime: node -> clock_t seconds
    targetInputPositions,   \* _targetInputPositions: node -> floats
    targetInputNormals,     \* _targetInputNormals: node -> floats
    targetAddedSlot,        \* _targetAddedSlot is connected
    targetRemovedSlot,      \* _targetRemovedSlot is connected
    addedSlot,              \* the node whose added() signal _addedSlot holds
    removedSlot,            \* the node whose removed() signal _removedSlot holds
    frameBeginSlot,         \* the root whose SceneManager _frameBeginSlot holds
    targets,                \* targets(): the nodes the component is bound to
    parent,                 \* the scene graph
    surface,                \* the kind of Surface each node carries
    geometry,               \* the geometry of each node's Surface
    clock,                  \* clock()
    cerr,                   \* number of warnings written to std::cerr
    event,                  \* the last operation, its arguments and outcome
    detached                \* history: registered nodes removed from their parent
                            \* and not attached or registered again since

tracking == <<targetGeometry, targetStartTime, targetInputPositions, targetInputNormals>>
slots == <<targetAddedSlot, targetRemovedSlot, addedSlot, removedSlot, frameBeginSlot>>
config == <<skin, context, method, boneVertexBuffer, cerr>>
world == <<targets, parent, surface, geometry, clock>>
vars == <<pc, config, tracking, slots, world, event, detached>>

NullBuffer == [null |-> TRUE, data |-> <<>>]
Event(op, node, target, outcome, updates) ==
    [op |-> op, node |-> node, target |-> target, outcome |-> outcome, updates |-> updates]

\* the state after the constructor (lines 51-69) in a scene with nothing attached
Constructed(s, ctx, m, scene) ==
    /\ pc = "constructed"
    /\ skin = s
    /\ context = ctx
    /\ method = m
    /\ boneVertexBuffer = NullBuffer
    /\ targetGeometry = EmptyMap
    /\ targetStartTime = EmptyMap
    /\ targetInputPositions = EmptyMap
    /\ targetInputNormals = EmptyMap
    /\ targetAddedSlot = FALSE
    /\ targetRemovedSlot = FALSE
    /\ addedSlot = NoNode
    /\ removedSlot = NoNode
    /\ frameBeginSlot = NoNode
    /\ targets = <<>>
    /\ parent = [n \in Nodes \cup SceneRoots |-> NoNode]
    /\ surface = scene
    /\ geometry = [n \in Nodes |-> NewGeometry(scene[n])]
    /\ clock = 0
    /\ cerr = 0
    /\ event = Event("constructor", NoNode, NoNode, "ok", <<>>)
    /\ detached = {}

\* ------------------------------------------- createVertexBufferForBones
Zeros(n) == [i \in 1..n |-> 0]
Put(data, index, value) == [data EXCEPT ![index + 1] = value]

\* the first while loop of a vertex: bone ids, from slot index
RECURSIVE WriteBoneIds(_, _, _, _, _)
WriteBoneIds(s, vId, j, index, vertexData) ==
    IF j < numVertexBones(s, vId) /\ j < boneVertexSize \div 4
    THEN WriteBoneIds(s, vId, j + 1, index, Put(vertexData, index + j, vertexBoneId(s, vId, j)))
    ELSE vertexData

\* the second while loop of a vertex: bone weights, from slot index
RECURSIVE WriteBoneWeights(_, _, _, _, _)
WriteBoneWeights(s, vId, j, index, vertexData) ==
    IF j < numVertexBones(s, vId) /\ j < boneVertexSize \div 4
    THEN WriteBoneWeights(s, vId, j + 1, index, Put(vertexData, index + j, vertexBoneWeight(s, vId, j)))
    ELSE vertexData

\* the for loop over the vertices
RECURSIVE PackVertices(_, _, _, _)
PackVertices(s, vId, index, vertexData) ==
    IF vId < s.numVertices
    THEN LET ids == WriteBoneIds(s, vId, 0, index, vertexData)
             weights == WriteBoneWeights(s, vId, 0, index + boneVertexSize \div 2, ids)
         IN  PackVertices(s, vId + 1, index + 2 * (boneVertexSize \div 2), weights)
    ELSE vertexData

createVertexBufferForBones(s) ==
    [null |-> FALSE, data |-> PackVertices(s, 0, 0, Zeros(s.numVertices * boneVertexSize))]

\* --------------------------------------------------------------- initialize
\* the downgrade with the cap itself taken as too many
EffectiveMethodCapExcluded(s, m) ==
    IF m # "SOFTWARE" /\ maxNumVertexBones(s) >= MAX_NUM_BONES_PER_VERTEX
    THEN "SOFTWARE"
    ELSE m

EffectiveMethod(s, m) ==
    IF m # "SOFTWARE" /\ maxNumVertexBones(s) > MAX_NUM_BONES_PER_VERTEX
    THEN "SOFTWARE"
    ELSE m

Initialize ==
    /\ pc = "constructed"
    /\ IF skin.null \/ ~context
       THEN /\ pc' = "failed"
            /\ event' = Event("initialize", NoNode, NoNode, "invalid_argument", <<>>)
            /\ UNCHANGED <<config, slots>>
       ELSE /\ pc' = "initialized"
            /\ method' = EffectiveMethod(skin, method)
            /\ cerr' = IF method' # method THEN cerr + 1 ELSE cerr
            /\ boneVertexBuffer' = IF method' = "SOFTWARE"
                                   THEN NullBuffer
                                   ELSE createVertexBufferForBones(skin)
            /\ targetAddedSlot' = TRUE
            /\ targetRemovedSlot' = TRUE
            /\ event' = Event("initialize", NoNode, NoNode, "ok", <<>>)
            /\ UNCHANGED <<skin, context, addedSlot, removedSlot, frameBeginSlot>>
    /\ UNCHANGED <<tracking, world, detached>>

\* ------------------------------------------------------ geometry access
AttrIndex(buffer, name) ==
    {i \in 1..Len(buffer.attributes) : buffer.attributes[i].name = name}
\* Geometry::hasVertexAttribute
hasVertexAttribute(kind, name) ==
    \E b \in 1..Len(Layout(kind)) : AttrIndex(Layout(kind)[b], name) # {}
\* Geometry::vertexBuffer(name): the buffer that holds the attribute
vertexBuffer(kind, name) ==
    CHOOSE b \in 1..Len(Layout(kind)) : AttrIndex(Layout(kind)[b], name) # {}
\* the loop that looks an attribute up in its buffer (the last match wins)
FindAttribute(kind, b, name) ==
    LET buffer == Layout(kind)[b]
        last == CHOOSE i \in AttrIndex(buffer, name) : \A k \in AttrIndex(buffer, name) : k <= i
    IN  buffer.attributes[last]
\* VertexBuffer::numVertices
numVertices(geo, kind, b) == Len(geo.data[b]) \div Layout(kind)[b].vertexSize

\* Geometry::addVertexBuffer / removeVertexBuffer for the bone vertex buffer:
\* the geometry keeps a list of buffers; one occurrence is added or removed
addVertexBuffer(geo) == [geo EXCEPT !.boneBuffers = @ + 1]
removeVertexBuffer(geo) == [geo EXCEPT !.boneBuffers = IF @ > 0 THEN @ - 1 ELSE 0]
\* Provider::set / unset
SetProp(geo, name, value) ==
    IF name = PNAME_NUM_BONES
    THEN [geo EXCEPT !.props.numBones = <<value>>]
    ELSE [geo EXCEPT !.props.boneMatrices = <<value>>]
UnsetProp(geo, name) ==
    IF name = PNAME_NUM_BONES
    THEN [geo EXCEPT !.props.numBones = <<>>]
    ELSE [geo EXCEPT !.props.boneMatrices = <<>>]
\* a UniformArray: (number of matrices, the frame whose matrices it points at)
NullFrame == -1
UniformArray(first, second) == [first |-> first, second |-> second]

\* ------------------------------------------------------------- scene graph
RECURSIVE AncestorsOrSelf(_, _)
AncestorsOrSelf(graph, n) ==
    IF n = NoNode THEN {} ELSE {n} \cup AncestorsOrSelf(graph, graph[n])
RECURSIVE Root(_, _)
Root(graph, n) == IF graph[n] = NoNode THEN n ELSE Root(graph, graph[n])
\* the nodes whose signal fires when child is added to / removed from p:
\* the descendants of child (child included) and the ancestors of p (p included)
Emitters(graph, child, p) ==
    {e \in Nodes \cup SceneRoots : child \in AncestorsOrSelf(graph, e)}
        \cup AncestorsOrSelf(graph, p)
hasSceneManager(n) == n \in SceneRoots

\* --------------------------------------------------- software skinning
\* boneMatrix[4r] * x1 + boneMatrix[4r+1] * y1 + boneMatrix[4r+2] * z1
Linear(m, in, r) ==
    FAdd(FAdd(FMul(m[4 * r], in[1]), FMul(m[4 * r + 1], in[2])), FMul(m[4 * r + 2], in[3]))
\* the two branches of lines 391-402: a position adds the translation
\* column, a direction does not
Transformed(linear, translation, doDeltaTransform) ==
    IF doDeltaTransform THEN linear ELSE FAdd(linear, translation)
\* the sixteen floats of bone boneId
BoneMatrix(boneMatrices, boneId) == [k \in 0..15 |-> boneMatrices[boneId * 16 + k + 1]]

\* the loop over the bones adding the translation column to directions too
RECURSIVE BlendBonesTranslatingDirections(_, _, _, _, _, _, _)
BlendBonesTranslatingDirections(s, vId, j, in, acc, boneMatrices, doDeltaTransform) ==
    IF j < numVertexBones(s, vId)
    THEN LET m == BoneMatrix(boneMatrices, vertexBoneId(s, vId, j))
             next == [r \in 1..3 |->
                         FAdd(acc[r], FMul(vertexBoneWeight(s, vId, j),
                                           FAdd(Linear(m, in, r - 1), m[4 * r - 1])))]
         IN  BlendBonesTranslatingDirections(s, vId, j + 1, in, next, boneMatrices,
                                             doDeltaTransform)
    ELSE acc

\* the loop over the bones giving every bone the weight 1
RECURSIVE BlendBonesUnweighted(_, _, _, _, _, _, _)
BlendBonesUnweighted(s, vId, j, in, acc, boneMatrices, doDeltaTransform) ==
    IF j < numVertexBones(s, vId)
    THEN LET m == BoneMatrix(boneMatrices, vertexBoneId(s, vId, j))
             next == [r \in 1..3 |->
                         FAdd(acc[r], Transformed(Linear(m, in, r - 1), m[4 * r - 1],
                                                  doDeltaTransform))]
         IN  BlendBonesUnweighted(s, vId, j + 1, in, next, boneMatrices, doDeltaTransform)
    ELSE acc

\* the loop over the bones of vertex vId: acc is (x2, y2, z2)
RECURSIVE BlendBones(_, _, _, _, _, _, _)
BlendBones(s, vId, j, in, acc, boneMatrices, doDeltaTransform) ==
    IF j < numVertexBones(s, vId)
    THEN LET m == BoneMatrix(boneMatrices, vertexBoneId(s, vId, j))
             \* x2, y2, z2 += boneWeight * (...)
             next == [r \in 1..3 |->
                         FAdd(acc[r], FMul(vertexBoneWeight(s, vId, j),
                                           Transformed(Linear(m, in, r - 1), m[4 * r - 1],
                                                       doDeltaTransform)))]
         IN  BlendBones(s, vId, j + 1, in, next, boneMatrices, doDeltaTransform)
    ELSE acc

\* lines 405-407: x2, y2, z2 written at index
WriteVertex(outputData, index, out) ==
    Put(Put(Put(outputData, index, out[1]), index + 1, out[2]), index + 2, out[3])

\* the loop over the vertices reading the live buffer instead of inputData
RECURSIVE SkinVerticesInPlace(_, _, _, _, _, _, _, _, _)
SkinVerticesInPlace(s, vId, count, index, stride, inputData, outputData, boneMatrices, doDeltaTransform) ==
    IF vId < count
    THEN LET in == <<outputData[index + 1], outputData[index + 2], outputData[index + 3]>>
             written == WriteVertex(outputData, index,
                                    BlendBones(s, vId, 0, in, <<0, 0, 0>>, boneMatrices,
                                               doDeltaTransform))
         IN  SkinVerticesInPlace(s, vId + 1, count, index + stride, stride, inputData, written,
                                 boneMatrices, doDeltaTransform)
    ELSE outputData

\* the loop over the vertices stepping by the attribute's size, not the stride
RECURSIVE SkinVerticesPacked(_, _, _, _, _, _, _, _, _)
SkinVerticesPacked(s, vId, count, index, stride, inputData, outputData, boneMatrices, doDeltaTransform) ==
    IF vId < count
    THEN LET in == <<inputData[index + 1], inputData[index + 2], inputData[index + 3]>>
             written == WriteVertex(outputData, index,
                                    BlendBones(s, vId, 0, in, <<0, 0, 0>>, boneMatrices,
                                               doDeltaTransform))
         IN  SkinVerticesPacked(s, vId + 1, count, index + 3, stride, inputData, written,
                                boneMatrices, doDeltaTransform)
    ELSE outputData

\* the loop over the vertices: reads inputData, writes outputData
RECURSIVE SkinVertices(_, _, _, _, _, _, _, _, _)
SkinVertices(s, vId, count, index, stride, inputData, outputData, boneMatrices, doDeltaTransform) ==
    IF vId < count
    THEN LET in == <<inputData[index + 1], inputData[index + 2], inputData[index + 3]>>
             written == WriteVertex(outputData, index,
                                    BlendBones(s, vId, 0, in, <<0, 0, 0>>, boneMatrices,
                                               doDeltaTransform))
         IN  SkinVertices(s, vId + 1, count, index + stride, stride, inputData, written,
                          boneMatrices, doDeltaTransform)
    ELSE outputData

\* the written buffer b and, after line 412, its uploaded copy
Uploaded(geo, b, outputData) == [geo EXCEPT !.data[b] = outputData, !.gpu[b] = outputData]

\* performSoftwareSkinning(attr, vertexBuffer, inputData, boneMatrices, doDeltaTransform)
\* on buffer b of a geometry, upload included
SkinAttribute(s, geo, kind, b, attr, inputData, boneMatrices, doDeltaTransform) ==
    LET stride == Layout(kind)[b].vertexSize
        count == Len(geo.data[b]) \div stride
    IN  Uploaded(geo, b, SkinVertices(s, 0, count, attr.offset, stride, inputData, geo.data[b],
                                      boneMatrices, doDeltaTransform))

\* lines 336-345: the normals of a geometry whose positions are done
SkinNormals(s, moved, kind, target, inputNormals, boneMatrices) ==
    IF hasVertexAttribute(kind, ATTRNAME_NORMAL) /\ target \in DOMAIN inputNormals
    THEN LET normalBuffer == vertexBuffer(kind, ATTRNAME_NORMAL)
             normalAttr == FindAttribute(kind, normalBuffer, ATTRNAME_NORMAL)
         IN  SkinAttribute(s, moved, kind, normalBuffer, normalAttr, inputNormals[target],
                           boneMatrices, TRUE)
    ELSE moved

\* performSoftwareSkinning(target, boneMatrices)
performSoftwareSkinning(s, geo, kind, target, inputPositions, inputNormals, boneMatrices) ==
    LET xyzBuffer == vertexBuffer(kind, ATTRNAME_POSITION)
        xyzAttr == FindAttribute(kind, xyzBuffer, ATTRNAME_POSITION)
    IN  SkinNormals(s, SkinAttribute(s, geo, kind, xyzBuffer, xyzAttr, inputPositions[target],
                                     boneMatrices, FALSE),
                    kind, target, inputNormals, boneMatrices)

\* ------------------------------------------------------------ updateFrame
\* the guard of updateFrame: the update goes on
Updates(registered, s, target, frameId) ==
    target \in DOMAIN registered /\ frameId < s.numFrames

updateFrame(s, m, geo, kind, registered, inputPositions, inputNormals, target, frameId) ==
    IF ~Updates(registered, s, target, frameId)
    THEN geo
    ELSE IF m = "HARDWARE"
         THEN SetProp(SetProp(geo, PNAME_NUM_BONES, s.numBones),
                      PNAME_BONE_MATRICES, UniformArray(s.numBones, frameId))
         ELSE performSoftwareSkinning(s, geo, kind, target, inputPositions, inputNormals,
                                      s.matrices[frameId + 1])

\* ----------------------------------- findSceneManager, setSceneManager
\* setSceneManager that keeps the subscription when no driver is given
setSceneManagerKeeping(current, sceneManager) ==
    IF sceneManager # NoNode THEN sceneManager ELSE current

setSceneManager(current, sceneManager) ==
    IF sceneManager # NoNode
    THEN sceneManager
    ELSE IF current # NoNode THEN NoNode ELSE current

\* the roots of the targets that carry a SceneManager
DriverRoots(graph, tgts) ==
    {r \in {Root(graph, tgts[i]) : i \in DOMAIN tgts} : hasSceneManager(r)}

\* findSceneManager taking the first of several drivers instead of throwing
findSceneManagerLax(graph, tgts, current) ==
    LET roots == DriverRoots(graph, tgts)
    IN  IF Cardinality(roots) >= 1
        THEN [throws |-> FALSE, slot |-> setSceneManager(current, CHOOSE r \in roots : TRUE)]
        ELSE [throws |-> FALSE, slot |-> setSceneManager(current, NoNode)]

\* what findSceneManager does: it throws, or leaves _frameBeginSlot as given
findSceneManager(graph, tgts, current) ==
    LET roots == DriverRoots(graph, tgts)
    IN  IF Cardinality(roots) > 1
        THEN [throws |-> TRUE, slot |-> current]
        ELSE IF Cardinality(roots) = 1
             THEN [throws |-> FALSE, slot |-> setSceneManager(current, CHOOSE r \in roots : TRUE)]
             ELSE [throws |-> FALSE, slot |-> setSceneManager(current, NoNode)]

\* -------------------------------------------------------------- handlers
targetAddedHandler(target) ==
    /\ addedSlot' = target
    /\ removedSlot' = target

targetRemovedHandler(target) ==
    /\ addedSlot' = NoNode
    /\ removedSlot' = NoNode

\* the four per-target maps as one value
Tracking ==
    [geometry |-> targetGeometry, startTime |-> targetStartTime,
     inputPositions |-> targetInputPositions, inputNormals |-> targetInputNormals]
SetTracking(t) ==
    /\ targetGeometry' = t.geometry
    /\ targetStartTime' = t.startTime
    /\ targetInputPositions' = t.inputPositions
    /\ targetInputNormals' = t.inputNormals

\* a test that lets every duration pass
IncorrectAnimationNever(s) == FALSE

\* the test of line 140: a duration below 1e-6 s, in the model's ticks zero
IncorrectAnimation(s) == s.duration = 0

\* the test without the comparison of the vertex counts
SkinnableAnyCount(s, geo, kind) ==
    /\ kind # "noSurface"
    /\ hasVertexAttribute(kind, ATTRNAME_POSITION)

\* the test of lines 143-148 on the node of an added event
Skinnable(s, geo, kind) ==
    /\ kind # "noSurface"
    /\ hasVertexAttribute(kind, ATTRNAME_POSITION)
    /\ numVertices(geo, kind, vertexBuffer(kind, ATTRNAME_POSITION)) = s.numVertices

\* the test of lines 155-156
HasNormals(s, geo, kind) ==
    /\ hasVertexAttribute(kind, ATTRNAME_NORMAL)
    /\ numVertices(geo, kind, vertexBuffer(kind, ATTRNAME_NORMAL)) = s.numVertices

\* the time origin stored at line 151: whole seconds
StartTime(now) == now \div ClocksPerSec

\* lines 150-157: the entries an added event writes for its node
Register(t, node, now, s, geo, kind) ==
    [geometry |-> MapSet(t.geometry, node, node),
     startTime |-> MapSet(t.startTime, node, StartTime(now)),
     inputPositions |-> MapSet(t.inputPositions, node,
                               geo.data[vertexBuffer(kind, ATTRNAME_POSITION)]),
     inputNormals |-> IF HasNormals(s, geo, kind)
                      THEN MapSet(t.inputNormals, node,
                                  geo.data[vertexBuffer(kind, ATTRNAME_NORMAL)])
                      ELSE t.inputNormals]

\* lines 159-166: what a non-SOFTWARE method installs on the geometry
InstallBones(m, geo) ==
    IF m # "SOFTWARE"
    THEN SetProp(SetProp(addVertexBuffer(geo), PNAME_BONE_MATRICES, UniformArray(0, NullFrame)),
                 PNAME_NUM_BONES, 0)
    ELSE geo

\* lines 180-185: what a non-SOFTWARE method takes off the geometry
UninstallBones(m, geo) ==
    IF m # "SOFTWARE"
    THEN UnsetProp(UnsetProp(removeVertexBuffer(geo), PNAME_BONE_MATRICES), PNAME_NUM_BONES)
    ELSE geo

\* an erasure that forgets the snapshot of the positions
EraseForgetsPositions(t, key) ==
    [geometry |-> MapErase(t.geometry, key),
     startTime |-> MapErase(t.startTime, key),
     inputPositions |-> t.inputPositions,
     inputNormals |-> MapErase(t.inputNormals, key)]

\* lines 187-194: the entries a removed event erases
Erase(t, key) ==
    [geometry |-> MapErase(t.geometry, key),
     startTime |-> MapErase(t.startTime, key),
     inputPositions |-> MapErase(t.inputPositions, key),
     inputNormals |-> MapErase(t.inputNormals, key)]

addedHandler(node, target, graph) ==
    LET found == findSceneManager(graph, targets, frameBeginSlot)
        kind == surface[node]
    IN  IF found.throws
        THEN /\ event' = Event("added", node, target, "logic_error", <<>>)
             /\ UNCHANGED <<tracking, frameBeginSlot, geometry>>
        ELSE /\ frameBeginSlot' = found.slot
             /\ IF IncorrectAnimation(skin) \/ ~Skinnable(skin, geometry[node], kind)
                THEN /\ event' = Event("added", node, target, "skipped", <<>>)
                     /\ UNCHANGED <<tracking, geometry>>
                ELSE /\ SetTracking(Register(Tracking, node, clock, skin, geometry[node], kind))
                     /\ geometry' = [geometry EXCEPT ![node] = InstallBones(method, @)]
                     /\ event' = Event("added", node, target, "registered", <<>>)

\* the key a removed event looks up and erases: its second argument
ErasedKey(node, target) == target

removedHandler(node, target, graph) ==
    LET found == findSceneManager(graph, targets, frameBeginSlot)
        key == ErasedKey(node, target)
    IN  IF found.throws
        THEN /\ event' = Event("removed", node, target, "logic_error", <<>>)
             /\ UNCHANGED <<tracking, frameBeginSlot, geometry>>
        ELSE /\ frameBeginSlot' = found.slot
             /\ geometry' = IF key \in DOMAIN targetGeometry
                            THEN [geometry EXCEPT ![targetGeometry[key]] = UninstallBones(method, @)]
                            ELSE geometry
             /\ SetTracking(Erase(Tracking, key))
             /\ event' = Event("removed", node, target,
                               IF key \in DOMAIN targetGeometry THEN "erased" ELSE "nothing", <<>>)

\* the elapsed time counted from the start of the clock
ElapsedFromZero(now, startTime) == now

\* the time a frame tick hands to getFrameId for a target, in clock ticks
Elapsed(now, startTime) == now - startTime * ClocksPerSec

\* frameBeginHandler: the loop over targets(), from the i-th on; calls lists
\* the updates that passed the guard of updateFrame, in order
RECURSIVE UpdateTargets(_, _, _, _, _)
UpdateTargets(i, now, startTimes, geos, calls) ==
    IF i > Len(targets)
    THEN [startTime |-> startTimes, geometry |-> geos, calls |-> calls]
    ELSE LET target == targets[i]
             \* _targetStartTime[target] inserts a zero for a key it does not hold
             held == IF target \in DOMAIN startTimes THEN startTimes
                     ELSE MapSet(startTimes, target, 0)
             frameId == getFrameId(skin, Elapsed(now, held[target]))
             geo == updateFrame(skin, method, geos[target], surface[target], targetGeometry,
                                targetInputPositions, targetInputNormals, target, frameId)
             made == IF Updates(targetGeometry, skin, target, frameId)
                     THEN Append(calls, <<target, frameId>>)
                     ELSE calls
         IN  UpdateTargets(i + 1, now, held, [geos EXCEPT ![target] = geo], made)

\* the state the loop leaves behind
Updated(r, done) ==
    /\ targetStartTime' = done.startTime
    /\ geometry' = done.geometry
    /\ event' = Event("frameBegin", r, NoNode, "ok", done.calls)

frameBeginHandler(r) == Updated(r, UpdateTargets(1, clock, targetStartTime, geometry, <<>>))

\* ---------------------------------------------------------------- actions
Remove(seq, x) == SelectSeq(seq, LAMBDA y : y # x)

\* node->addComponent(skinning)
TargetAdded(t) ==
    /\ pc = "initialized"
    /\ \A i \in DOMAIN targets : targets[i] # t
    /\ targets' = Append(targets, t)
    /\ targetAddedHandler(t)
    /\ event' = Event("targetAdded", t, t, "ok", <<>>)
    /\ UNCHANGED <<pc, config, tracking, targetAddedSlot, targetRemovedSlot, frameBeginSlot,
                   parent, surface, geometry, clock, detached>>

\* node->removeComponent(skinning)
TargetRemoved(t) ==
    /\ pc = "initialized"
    /\ \E i \in DOMAIN targets : targets[i] = t
    /\ targets' = Remove(targets, t)
    /\ targetRemovedHandler(t)
    /\ event' = Event("targetRemoved", t, t, "ok", <<>>)
    /\ UNCHANGED <<pc, config, tracking, targetAddedSlot, targetRemovedSlot, frameBeginSlot,
                   parent, surface, geometry, clock, detached>>

\* the bone buffer count of a geometry stays within the model's bound
WithinBounds(node) ==
    method # "SOFTWARE" => geometry[node].boneBuffers < MaxBoneBuffers

\* p->addChild(child): the added() signal reaches the handler of _addedSlot
AddChild(p, child) ==
    /\ pc = "initialized"
    /\ parent[child] = NoNode
    /\ p \in MayBeChildOf[child]
    /\ parent' = [parent EXCEPT ![child] = p]
    /\ IF addedSlot # NoNode /\ addedSlot \in Emitters(parent', child, p)
       THEN /\ WithinBounds(addedSlot)
            /\ addedHandler(addedSlot, child, parent')
            /\ detached' = detached \ {child, addedSlot}
       ELSE /\ UNCHANGED <<tracking, frameBeginSlot, geometry, event>>
            /\ detached' = detached \ {child}
    /\ UNCHANGED <<pc, config, targetAddedSlot, targetRemovedSlot, addedSlot, removedSlot,
                   targets, surface, clock>>

\* p->removeChild(child): the removed() signal reaches the handler of _removedSlot
RemoveChild(child) ==
    /\ pc = "initialized"
    /\ parent[child] # NoNode
    /\ parent' = [parent EXCEPT ![child] = NoNode]
    /\ IF removedSlot # NoNode /\ removedSlot \in Emitters(parent', child, parent[child])
       THEN removedHandler(removedSlot, child, parent')
       ELSE UNCHANGED <<tracking, frameBeginSlot, geometry, event>>
    /\ detached' = IF child \in DOMAIN targetGeometry
                   THEN detached \cup {child}
                   ELSE detached
    /\ UNCHANGED <<pc, config, targetAddedSlot, targetRemovedSlot, addedSlot, removedSlot,
                   targets, surface, clock>>

\* the SceneManager of root r starts a frame
FrameBegin(r) ==
    /\ pc = "initialized"
    /\ frameBeginSlot = r
    /\ frameBeginHandler(r)
    /\ UNCHANGED <<pc, config, targetGeometry, targetInputPositions, targetInputNormals, slots,
                   targets, parent, surface, clock, detached>>

\* processor time passes
Tick ==
    /\ clock < MaxClock
    /\ clock' = clock + 1
    /\ UNCHANGED <<pc, config, tracking, slots, targets, parent, surface, geometry, event,
                   detached>>

Init ==
    \E cfg \in Configs : Constructed(cfg.skin, TRUE, cfg.method, cfg.scene)

Next ==
    \/ Initialize
    \/ \E t \in Targetable : TargetAdded(t)
    \/ \E t \in Targetable : TargetRemoved(t)
    \/ \E child \in Nodes : \E p \in SceneRoots \cup Nodes : AddChild(p, child)
    \/ \E child \in Nodes : RemoveChild(child)
    \/ \E r \in SceneRoots : FrameBegin(r)
    \/ Tick

Spec == Init /\ [][Next]_vars

\* ------------------------------------------ software skinning on its own
\* a bone matrix that translates by t
Translation(t) ==
    <<Float(1), 0, 0, t[1],  0, Float(1), 0, t[2],  0, 0, Float(1), t[3],  0, 0, 0, Float(1)>>
RECURSIVE Repeat(_, _)
Repeat(matrix, n) == IF n = 0 THEN <<>> ELSE matrix \o Repeat(matrix, n - 1)
\* a skin of one frame: vertex 0 has the given weights on bones 0, 1, ...,
\* vertex 1 has bone 0 with weight 1, and every bone has the same matrix
BlendSkin(weights, matrix) ==
    [null |-> FALSE, numVertices |-> 2, numBones |-> Len(weights), numFrames |-> 1,
     duration |-> 2,
     bones |-> << [j \in 1..Len(weights) |-> Bone(j - 1, weights[j])], <<Bone(0, Float(1))>> >>,
     matrices |-> << Repeat(matrix, Len(weights)) >>]
\* the weights of vertex 0: one bone, or two or three bones whose weights sum to 1
WeightLists ==
    {<<Float(1)>>, <<Float(1), 0>>, <<Unit \div 2>>}
        \cup {<<w, Unit - w>> : w \in 1..(Unit - 1)}
        \cup {<<w, w, Unit - 2 * w>> : w \in 1..MaxThirdWeight}
\* positions and normals of vertex 0: whole numbers, so that a product with
\* a weight is rounded only for want of significant bits
Points ==
    {<<Float(11), Float(13), Float(3)>>, <<Float(15), Float(-9), 0>>,
     <<Float(13), Float(15), Float(11)>>, <<Float(7), Float(1), Float(-5)>>}
Translations ==
    {<<Float(1), Float(2), Float(-3)>>, <<Float(2), 3, Float(16)>>}
BlendMatrices == {Identity, Flip} \cup {Translation(t) : t \in Translations}
\* the data of a "full" buffer whose vertex 0 has position p and normal n
VertexData(p, n) ==
    [i \in 1..14 |-> IF i <= 3 THEN p[i] ELSE IF i <= 6 THEN n[i - 3] ELSE BindData("full", 1)[i]]
\* node a registered in SOFTWARE under root r1, whose driver the component
\* is subscribed to, at clock 0
InitBlend ==
    \E weights \in WeightLists, matrix \in BlendMatrices, p \in Points, n \in Points :
        LET data == VertexData(p, n)
        IN  /\ pc = "initialized"
            /\ skin = BlendSkin(weights, matrix)
            /\ context = TRUE
            /\ method = "SOFTWARE"
            /\ boneVertexBuffer = NullBuffer
            /\ targetGeometry = [x \in {"a"} |-> "a"]
            /\ targetStartTime = [x \in {"a"} |-> 0]
            /\ targetInputPositions = [x \in {"a"} |-> data]
            /\ targetInputNormals = [x \in {"a"} |-> data]
            /\ targetAddedSlot = TRUE
            /\ targetRemovedSlot = TRUE
            /\ addedSlot = "a"
            /\ removedSlot = "a"
            /\ frameBeginSlot = "r1"
            /\ targets = <<"a">>
            /\ parent = [x \in Nodes \cup SceneRoots |-> IF x = "a" THEN "r1" ELSE NoNode]
            /\ surface = SceneBoth
            /\ geometry = [x \in Nodes |->
                              IF x = "a"
                              THEN [NewGeometry("full") EXCEPT !.data = <<data>>, !.gpu = <<data>>]
                              ELSE NewGeometry(SceneBoth[x])]
            /\ clock = 0
            /\ cerr = 0
            /\ event = Event("added", "a", "a", "registered", <<>>)
            /\ detached = {}
NextBlend == FrameBegin("r1")
SpecBlend == InitBlend /\ [][NextBlend]_vars

\* ---------------------------------------- initialization on its own
NoScene == [n \in Nodes |-> "noSurface"]
InitAny ==
    \E k0, k1 \in 0..MaxVertexBones, m \in SkinningMethod, ctx \in BOOLEAN, isNull \in BOOLEAN :
        /\ isNull => (k0 = 0 /\ k1 = 0)
        /\ Constructed(IF isNull THEN NullSkin ELSE PackSkin(k0, k1), ctx, m, NoScene)
NextInit == Initialize
SpecInit == InitAny /\ [][NextInit]_vars

\* ======================================================================
\* Claims
\* ======================================================================

\* C8: initialize() with a skin and a context never fails; a non-SOFTWARE
\* request with maxNumVertexBones > 8 ends with method SOFTWARE, no bone
\* vertex buffer and no error; with maxNumVertexBones <= 8 the requested
\* method is kept (and a non-SOFTWARE one gets its bone vertex buffer).
C8_DowngradeStep ==
    (pc = "constructed" /\ pc' # "constructed" /\ ~skin.null /\ context) =>
        /\ pc' = "initialized"
        /\ event'.outcome = "ok"
        /\ (method # "SOFTWARE" /\ maxNumVertexBones(skin) > 8) =>
                (method' = "SOFTWARE" /\ boneVertexBuffer'.null)
        /\ maxNumVertexBones(skin) <= 8 =>
                (method' = method /\ (boneVertexBuffer'.null <=> method = "SOFTWARE"))
C8_SilentDowngrade == [][C8_DowngradeStep]_vars

\* a hardware request was downgraded, and one at the cap was kept
C8_Witness ==
    /\ pc = "initialized"
    /\ maxNumVertexBones(skin) > 8
    /\ method = "SOFTWARE"
    /\ cerr = 1
    /\ boneVertexBuffer.null

\* C9: row v of the bone vertex buffer is 16 floats: floats 0..k-1 are the
\* vertex's k bone ids in order, floats 8..8+k-1 the matching weights, and
\* every other float of the row is 0.
RowFloat(s, vId, slot) ==
    IF slot < numVertexBones(s, vId) THEN vertexBoneId(s, vId, slot)
    ELSE IF slot >= 8 /\ slot - 8 < numVertexBones(s, vId) THEN vertexBoneWeight(s, vId, slot - 8)
    ELSE 0
C9_PackedRows ==
    (pc = "initialized" /\ ~boneVertexBuffer.null) =>
        /\ Len(boneVertexBuffer.data) = 16 * skin.numVertices
        /\ \A vId \in 0..(skin.numVertices - 1) : \A slot \in 0..15 :
                boneVertexBuffer.data[16 * vId + slot + 1] = RowFloat(skin, vId, slot)

\* ---------------------------------------------------- shared vocabulary
Range(seq) == {seq[i] : i \in DOMAIN seq}
AllKeys ==
    (DOMAIN targetGeometry) \cup (DOMAIN targetStartTime)
        \cup (DOMAIN targetInputPositions) \cup (DOMAIN targetInputNormals)
\* what the four maps hold for node n
EntriesOf(n) ==
    << IF n \in DOMAIN targetGeometry THEN <<targetGeometry[n]>> ELSE <<>>,
       IF n \in DOMAIN targetStartTime THEN <<targetStartTime[n]>> ELSE <<>>,
       IF n \in DOMAIN targetInputPositions THEN <<targetInputPositions[n]>> ELSE <<>>,
       IF n \in DOMAIN targetInputNormals THEN <<targetInputNormals[n]>> ELSE <<>> >>
\* a step in which addedHandler or removedHandler ran
HandledStep == parent' # parent /\ event' # event
\* a step in which frameBeginHandler ran
FrameBeginStep == event'.op = "frameBegin" /\ UNCHANGED <<pc, clock, parent, targets>>
\* the frame a tick at the current clock resolves for a node with an entry
FrameOf(n) == getFrameId(skin, clock - targetStartTime[n] * ClocksPerSec)
\* the geometry carries nothing of the bone buffer and its bindings
NoBones(geo) == geo.boneBuffers = 0 /\ geo.props = NoProps

\* C1 as stated: the four per-target maps have exactly the same key set.
C1_SameKeys ==
    /\ DOMAIN targetGeometry = DOMAIN targetStartTime
    /\ DOMAIN targetGeometry = DOMAIN targetInputPositions
    /\ DOMAIN targetGeometry = DOMAIN targetInputNormals

\* C1 (amended): geometry and inputPositions have the same key set, every
\* key of inputNormals is one of theirs, and every one of theirs is a key
\* of startTime.
C1_KeysNested ==
    /\ DOMAIN targetGeometry = DOMAIN targetInputPositions
    /\ DOMAIN targetInputNormals \subseteq DOMAIN targetGeometry
    /\ DOMAIN targetGeometry \subseteq DOMAIN targetStartTime

\* a node is registered without normals while a bound, unregistered node
\* holds a start time
C1_Witness ==
    /\ \E n \in DOMAIN targetGeometry : n \notin DOMAIN targetInputNormals
    /\ \E n \in DOMAIN targetStartTime : n \notin DOMAIN targetGeometry

\* C2: when an added event registers its node, the removed event of the
\* same scene-graph change (same node, same target), handled without an
\* error, leaves the four maps without an entry for the node and, in a
\* non-SOFTWARE method, its geometry without bone buffer and bindings.
C2_DetachStep ==
    ( /\ event.op = "added" /\ event.outcome = "registered"
      /\ HandledStep
      /\ event'.op = "removed" /\ event'.outcome # "logic_error"
      /\ event'.node = event.node /\ event'.target = event.target ) =>
        /\ event.node \notin AllKeys'
        /\ method # "SOFTWARE" => NoBones(geometry'[event.node])
C2_AttachThenDetach == [][C2_DetachStep]_vars

\* C3 as stated: a frame tick makes no deformation update for a node that
\* had a geometry entry when it was removed from its parent and has not been
\* attached, or registered by an added event, since.
C3_DetachedStep ==
    FrameBeginStep =>
        \A i \in DOMAIN event'.updates : event'.updates[i][1] \notin detached
C3_DetachedNeverUpdated == [][C3_DetachedStep]_vars

\* C3, the part that holds: a removed event handled for a target leaves no
\* geometry entry for it; an entry only comes back by an added event that
\* registers the node; and a frame tick makes no update for a node without
\* an entry: its geometry (vertex buffers, bindings) stays as it was.
C3_Step ==
    /\ (HandledStep /\ event'.op = "removed" /\ event'.outcome # "logic_error") =>
            event'.target \notin DOMAIN targetGeometry'
    /\ \A n \in Nodes :
        /\ (n \notin DOMAIN targetGeometry /\ n \in DOMAIN targetGeometry') =>
                (event'.op = "added" /\ event'.node = n /\ event'.outcome = "registered")
        /\ (n \notin DOMAIN targetGeometry /\ FrameBeginStep) =>
                /\ geometry'[n] = geometry[n]
                /\ \A i \in DOMAIN event'.updates : event'.updates[i][1] # n
C3_NoUpdateAfterDetach == [][C3_Step]_vars

\* a tick ran over a bound node that was deformed and is erased by now
C3_Witness ==
    /\ event.op = "frameBegin"
    /\ \E n \in Range(targets) :
        /\ n \notin DOMAIN targetGeometry
        /\ geometry[n].data # NewGeometry(surface[n]).data

\* C4: a node whose surface has no position attribute, or a position vertex
\* count other than Skin.numVertices, never has a geometry or snapshot
\* entry, its geometry never changes, and no added event gives it a start
\* time.
Unskinnable(n) ==
    \/ surface[n] = "noSurface"
    \/ ~hasVertexAttribute(surface[n], "position")
    \/ KindVertices(surface[n]) # skin.numVertices
C4_Step ==
    \A n \in Nodes : Unskinnable(n) =>
        /\ n \notin (DOMAIN targetGeometry') \cup (DOMAIN targetInputPositions')
                        \cup (DOMAIN targetInputNormals')
        /\ geometry'[n] = geometry[n]
        /\ (HandledStep /\ event'.op = "added") =>
                ((n \in DOMAIN targetStartTime') <=> (n \in DOMAIN targetStartTime))
C4_MismatchNeverRegistered == [][C4_Step]_vars

\* a tick ran with a bound node of the wrong vertex count attached under
\* the subscribed driver, and an added event for it was skipped before
C4_Witness ==
    /\ event.op = "frameBegin"
    /\ \E n \in Range(targets) :
        /\ surface[n] = "fewVerts"
        /\ Root(parent, n) = frameBeginSlot
        /\ addedSlot = n

\* C5 as stated: a frame tick over a bound node that has no geometry entry,
\* or whose resolved frame is >= Skin.numFrames, raises no error and leaves
\* the node's entries in the four maps and its geometry as they were.
ResolvedFrame(n) ==
    getFrameId(skin, clock - (IF n \in DOMAIN targetStartTime THEN targetStartTime[n] ELSE 0)
                                * ClocksPerSec)
C5_TickStep ==
    \A n \in Range(targets) :
        (FrameBeginStep /\ (n \notin DOMAIN targetGeometry \/ ResolvedFrame(n) >= skin.numFrames)) =>
            /\ event'.outcome = "ok"
            /\ EntriesOf(n)' = EntriesOf(n)
            /\ geometry'[n] = geometry[n]
C5_SkippedTickChangesNothing == [][C5_TickStep]_vars

\* C6 as stated: on a tick every node with a geometry entry whose resolved
\* frame f = getFrameId(now - startTime[node]) is in range gets exactly one
\* update, with frame f.
UpdatedOnce(updates, n, f) ==
    /\ Cardinality({i \in DOMAIN updates : updates[i][1] = n}) = 1
    /\ \E i \in DOMAIN updates : updates[i] = <<n, f>>
C6_EveryRegisteredStep ==
    \A n \in DOMAIN targetGeometry :
        (FrameBeginStep /\ FrameOf(n) < skin.numFrames) =>
            UpdatedOnce(event'.updates, n, FrameOf(n))
C6_EveryRegisteredNodeUpdated == [][C6_EveryRegisteredStep]_vars

\* C6 (amended): on a tick every node that is bound to the component and has
\* a geometry entry, and whose resolved frame f is in range, gets exactly
\* one update, with frame f; in HARDWARE the update leaves f in the
\* geometry.boneMatrices binding.
C6_BoundStep ==
    \A n \in (DOMAIN targetGeometry) \cap Range(targets) :
        (FrameBeginStep /\ FrameOf(n) < skin.numFrames) =>
            /\ UpdatedOnce(event'.updates, n, FrameOf(n))
            /\ method = "HARDWARE" =>
                    geometry'[n].props.boneMatrices = <<UniformArray(skin.numBones, FrameOf(n))>>
C6_EveryBoundRegisteredNodeUpdated == [][C6_BoundStep]_vars

\* a tick updated two nodes, with frame 1
C6_Witness ==
    /\ event.op = "frameBegin"
    /\ Len(event.updates) = 2
    /\ event.updates[1][1] # event.updates[2][1]
    /\ event.updates[1][2] = 1

\* C7: when the roots of the bound targets, as an added or removed event
\* finds them, include two or more with a SceneManager, the handler raises
\* the logic error and the frame subscription stays as it was.
DriversSeen(graph) ==
    {r \in SceneRoots : \E n \in Range(targets) : r \in AncestorsOrSelf(graph, n)}
C7_Step ==
    (HandledStep /\ Cardinality(DriversSeen(parent')) >= 2) =>
        (event'.outcome = "logic_error" /\ frameBeginSlot' = frameBeginSlot)
RECURSIVE SumTo(_, _)
SumTo(term, n) == IF n = 0 THEN 0 ELSE term[n] + SumTo(term, n - 1)
BlendOf(s, snapshot, base, vId, row, frame, isDirection) ==
    LET bones == s.bones[vId + 1]
        matrix(j) == SubSeq(s.matrices[frame + 1], 16 * bones[j].boneId + 1,
                            16 * bones[j].boneId + 16)
        term == [j \in 1..Len(bones) |->
                    bones[j].boneWeight *
                        ( matrix(j)[4 * row + 1] * snapshot[base + 1]
                        + matrix(j)[4 * row + 2] * snapshot[base + 2]
                        + matrix(j)[4 * row + 3] * snapshot[base + 3]
                        + (IF isDirection THEN 0 ELSE Unit * matrix(j)[4 * row + 4]) )]
    IN  SumTo(term, Len(bones))
AttributeIsBlend(s, geo, kind, name, snapshot, frame, isDirection) ==
    LET b == vertexBuffer(kind, name)
        stride == Layout(kind)[b].vertexSize
        offset == FindAttribute(kind, b, name).offset
    IN  \A vId \in 0..(s.numVertices - 1) : \A row \in 0..2 :
            Unit * Unit * geo.data[b][vId * stride + offset + row + 1]
                = BlendOf(s, snapshot, vId * stride + offset, vId, row, frame, isDirection)
C10_LiveIsBlendOfSnapshot ==
    (event.op = "frameBegin" /\ method = "SOFTWARE") =>
        \A i \in DOMAIN event.updates :
            LET n == event.updates[i][1]
                frame == event.updates[i][2]
            IN  /\ AttributeIsBlend(skin, geometry[n], surface[n], "position",
                                    targetInputPositions[n], frame, FALSE)
                /\ (hasVertexAttribute(surface[n], "normal") /\ n \in DOMAIN targetInputNormals) =>
                        AttributeIsBlend(skin, geometry[n], surface[n], "normal",
                                         targetInputNormals[n], frame, TRUE)

\* a tick applied frame 1 to a node whose snapshot was taken anew after an
\* earlier deformation, and moved its vertices
C10_Witness ==
    /\ event.op = "frameBegin"
    /\ method = "SOFTWARE"
    /\ \E i \in DOMAIN event.updates :
        LET n == event.updates[i][1]
            b == vertexBuffer(surface[n], "position")
        IN  /\ event.updates[i][2] = 1
            /\ n \in DOMAIN targetInputNormals
            /\ geometry[n].data[b] # targetInputPositions[n]
            /\ targetInputPositions[n] # NewGeometry(surface[n]).data[b]

\* ------------------------------------------- software skinning of a vertex
\* float `row` (0..2) of attribute `name` of vertex vId in a "full" buffer
LiveOf(vId, name, row) ==
    geometry["a"].data[1][vId * 7 + FindAttribute("full", 1, name).offset + row + 1]
SnapshotOf(snapshot, vId, name, row) ==
    snapshot["a"][vId * 7 + FindAttribute("full", 1, name).offset + row + 1]
\* the matrix of bone j (from 1) of vertex vId in frame 0
BoneMatrixOf(vId, j) ==
    SubSeq(skin.matrices[1], 16 * skin.bones[vId + 1][j].boneId + 1,
           16 * skin.bones[vId + 1][j].boneId + 16)
SingleFullBone(vId) ==
    Len(skin.bones[vId + 1]) = 1 /\ skin.bones[vId + 1][1].boneWeight = Float(1)

\* C11: after software skinning, a vertex with a single bone of weight 1
\* whose matrix translates by t has position = snapshot position + t (one
\* float addition per coordinate, t taken from elements 3, 7, 11) and
\* normal = snapshot normal.
C11_TranslationShiftsPositionOnly ==
    event.op = "frameBegin" =>
        \A vId \in 0..1 : \A t \in Translations :
            (SingleFullBone(vId) /\ BoneMatrixOf(vId, 1) = Translation(t)) =>
                \A row \in 0..2 :
                    /\ LiveOf(vId, "position", row)
                            = FAdd(SnapshotOf(targetInputPositions, vId, "position", row), t[row + 1])
                    /\ LiveOf(vId, "normal", row)
                            = SnapshotOf(targetInputNormals, vId, "normal", row)

\* a vertex was translated, by a different amount in each coordinate
C11_Witness ==
    /\ event.op = "frameBegin"
    /\ Len(event.updates) = 1
    /\ SingleFullBone(0)
    /\ \E t \in Translations :
        /\ BoneMatrixOf(0, 1) = Translation(t)
        /\ \A row \in 0..2 :
                LiveOf(0, "position", row)
                    = SnapshotOf(targetInputPositions, 0, "position", row) + t[row + 1]
        /\ LiveOf(0, "position", 0) # SnapshotOf(targetInputPositions, 0, "position", 0)

\* the weights of vertex vId sum to 1 and all its bones have the identity matrix
WeightOf(vId) == [j \in 1..Len(skin.bones[vId + 1]) |-> skin.bones[vId + 1][j].boneWeight]
IdentityBlend(vId) ==
    /\ SumTo(WeightOf(vId), Len(skin.bones[vId + 1])) = Float(1)
    /\ \A j \in 1..Len(skin.bones[vId + 1]) : BoneMatrixOf(vId, j) = Identity
\* the spacing of the floats at value n
Ulp(n) == UlpFrom(Abs(n), 1, 1)
Attributes == {<<"position", targetInputPositions>>, <<"normal", targetInputNormals>>}

\* C12 as stated: for a vertex whose weights sum to 1 and whose bones all
\* have the identity matrix, software skinning writes exactly the snapshot
\* value, for the position and for the normal.
C12_IdentityWritesSnapshot ==
    event.op = "frameBegin" =>
        \A vId \in 0..1 : IdentityBlend(vId) =>
            \A at \in Attributes : \A row \in 0..2 :
                LiveOf(vId, at[1], row) = SnapshotOf(at[2], vId, at[1], row)

\* C12 (amended): for such a vertex the written value is the snapshot value
\* up to the rounding of the float products and sums: it differs from it by
\* at most one float spacing per bone, and is the snapshot value itself when
\* every weight is 0 or 1.
C12_IdentityWritesSnapshotRounded ==
    event.op = "frameBegin" =>
        \A vId \in 0..1 : IdentityBlend(vId) =>
            \A at \in Attributes : \A row \in 0..2 :
                LET live == LiveOf(vId, at[1], row)
                    snap == SnapshotOf(at[2], vId, at[1], row)
                IN  /\ Abs(live - snap) <= Len(skin.bones[vId + 1]) * Ulp(snap)
                    /\ (\A j \in DOMAIN WeightOf(vId) : WeightOf(vId)[j] \in {0, Float(1)})
                            => live = snap

\* a vertex with two weighted identity bones was skinned and one of its
\* coordinates came out off the snapshot value
C12_Witness ==
    /\ event.op = "frameBegin"
    /\ Len(event.updates) = 1
    /\ IdentityBlend(0)
    /\ Len(skin.bones[1]) = 2
    /\ \E row \in 0..2 :
            LiveOf(0, "position", row) # SnapshotOf(targetInputPositions, 0, "position", row)

\* C13 as stated: the start time an added event stores for the node it
\* registers is the clock reading of that moment, so that a frame tick at
\* the same clock reading computes elapsed = 0 and resolves getFrameId(0).
C13_Step ==
    (HandledStep /\ event'.op = "added" /\ event'.outcome = "registered") =>
        LET n == event'.node
        IN  /\ targetStartTime'[n] * ClocksPerSec = clock
            /\ Elapsed(clock, targetStartTime'[n]) = 0
            /\ getFrameId(skin, Elapsed(clock, targetStartTime'[n])) = getFrameId(skin, 0)
C13_StartTimeIsAttachClock == [][C13_Step]_vars

\* C14 as stated: in every method other than SOFTWARE an update made by a
\* frame tick sets geometry.numBones to Skin.numBones and geometry.boneMatrices
\* to (Skin.numBones, the matrices of the frame), and leaves the vertex
\* buffers of the geometry as they were.
C14_Step ==
    (FrameBeginStep /\ method # "SOFTWARE") =>
        \A i \in DOMAIN event'.updates :
            LET n == event'.updates[i][1]
                f == event'.updates[i][2]
            IN  /\ geometry'[n].props.numBones = <<skin.numBones>>
                /\ geometry'[n].props.boneMatrices = <<UniformArray(skin.numBones, f)>>
                /\ geometry'[n].data = geometry[n].data
                /\ geometry'[n].gpu = geometry[n].gpu
C14_NonSoftwareUpdatesBindings == [][C14_Step]_vars

\* C15: after an added or removed event handled without the logic error,
\* the component is subscribed to a driver exactly when the roots of its
\* targets include exactly one driver, and then to that one; the frame
\* handler only runs for the one driver subscribed to, so with no
\* subscription no frame tick reaches it.
C15_Step ==
    /\ (HandledStep /\ event'.outcome # "logic_error") =>
            /\ (frameBeginSlot' # NoNode) <=> (Cardinality(DriversSeen(parent')) = 1)
            /\ frameBeginSlot' # NoNode => frameBeginSlot' \in DriversSeen(parent')
    /\ FrameBeginStep => (frameBeginSlot # NoNode /\ event'.node = frameBeginSlot)
C15_SubscribedIffOneDriver == [][C15_Step]_vars

\* a removed event left a registered node without any subscription
C15_Witness ==
    /\ event.op = "removed"
    /\ event.outcome # "logic_error"
    /\ frameBeginSlot = NoNode
    /\ DriversSeen(parent) = {}
    /\ (DOMAIN targetGeometry) \cap Range(targets) # {}

\* C16: the nodes whose added and removed signals the component is
\* connected to are exactly the targets currently bound.
C16_SubscribedToBoundTargets ==
    /\ {addedSlot} \ {NoNode} = Range(targets)
    /\ {removedSlot} \ {NoNode} = Range(targets)

\* C17: with a skin of zero duration an added event leaves the four maps
\* and every geometry (bone buffer, numBones, boneMatrices, data) as they
\* were, in every method.
C17_Step ==
    (HandledStep /\ event'.op = "added" /\ skin.duration = 0) =>
        UNCHANGED <<tracking, geometry>>
C17_ZeroDurationRegistersNothing == [][C17_Step]_vars

\* an added event for a node with a matching surface, in a hardware method
C17_Witness ==
    /\ skin.duration = 0
    /\ method = "HARDWARE"
    /\ event.op = "added"
    /\ event.outcome = "skipped"
    /\ Skinnable(skin, geometry[event.node], surface[event.node])
    /\ AllKeys = {}
    /\ NoBones(geometry[event.node])

\* C18: the snapshots held for a registered node are the data its geometry
\* was created with, whatever attach events, frame ticks, detaches and
\* re-attaches have happened.
C18_SnapshotsAreBindPose ==
    /\ \A n \in DOMAIN targetInputPositions :
          targetInputPositions[n] =
              NewGeometry(surface[n]).data[vertexBuffer(surface[n], ATTRNAME_POSITION)]
    /\ \A n \in DOMAIN targetInputNormals :
          targetInputNormals[n] =
              NewGeometry(surface[n]).data[vertexBuffer(surface[n], ATTRNAME_NORMAL)]

\* C19: a software skinning pass over one attribute of a registered node's
\* geometry, with the bone matrices of any frame, changes in its buffer only
\* the three floats at the attribute's offset of each row, leaves the other
\* buffers alone, and ends with the written buffer uploaded.
PassKeepsTheRest(n, name, snapshot, frameId) ==
    LET kind == surface[n]
        b == vertexBuffer(kind, name)
        attr == FindAttribute(kind, b, name)
        stride == Layout(kind)[b].vertexSize
        before == geometry[n]
        after == SkinAttribute(skin, before, kind, b, attr, snapshot, skin.matrices[frameId + 1],
                               name = ATTRNAME_NORMAL)
        Written(i) == ((i - 1) % stride) \in attr.offset..(attr.offset + 2)
    IN  /\ DOMAIN after.data = DOMAIN before.data
        /\ \A b2 \in DOMAIN before.data :
              /\ DOMAIN after.data[b2] = DOMAIN before.data[b2]
              /\ \A i \in DOMAIN before.data[b2] :
                    (b2 # b \/ ~Written(i)) => after.data[b2][i] = before.data[b2][i]
              /\ b2 # b => after.gpu[b2] = before.gpu[b2]
        /\ after.gpu[b] = after.data[b]
        /\ after.boneBuffers = before.boneBuffers
        /\ after.props = before.props
C19_PassWritesOnlyItsAttribute ==
    \A n \in DOMAIN targetGeometry : \A frameId \in 0..(skin.numFrames - 1) :
        /\ n \in DOMAIN targetInputPositions =>
              PassKeepsTheRest(n, ATTRNAME_POSITION, targetInputPositions[n], frameId)
        /\ n \in DOMAIN targetInputNormals =>
              PassKeepsTheRest(n, ATTRNAME_NORMAL, targetInputNormals[n], frameId)

\* a tick has deformed positions and normals that share one buffer, and a
\* further pass would deform them again
C19_Witness ==
    \E n \in (DOMAIN targetInputPositions) \cap (DOMAIN targetInputNormals) :
        /\ n \in DOMAIN targetGeometry
        /\ method = "SOFTWARE"
        /\ event.op = "frameBegin"
        /\ \E i \in DOMAIN event.updates : event.updates[i][1] = n
        /\ vertexBuffer(surface[n], ATTRNAME_POSITION) = vertexBuffer(surface[n], ATTRNAME_NORMAL)
        /\ geometry[n].data[1] # targetInputPositions[n]
        /\ geometry[n].gpu = geometry[n].data
        /\ \E frameId \in 0..(skin.numFrames - 1) :
              SkinAttribute(skin, geometry[n], surface[n], 1,
                            FindAttribute(surface[n], 1, ATTRNAME_POSITION),
                            targetInputPositions[n], skin.matrices[frameId + 1], FALSE)
                  # geometry[n]

\* C20: in a non-SOFTWARE method a geometry carries the bone vertex buffer
\* and the properties geometry.numBones and geometry.boneMatrices exactly
\* when it is the geometry registered for some node, and it never carries
\* the bone vertex buffer more than once.
Carries(geo) ==
    /\ geo.boneBuffers >= 1
    /\ geo.props.numBones # <<>>
    /\ geo.props.boneMatrices # <<>>
C20_CarriesIffRegistered ==
    method # "SOFTWARE" =>
        \A g \in Nodes :
            /\ (g \in Range(targetGeometry)) => Carries(geometry[g])
            /\ (g \notin Range(targetGeometry)) => NoBones(geometry[g])
C20_BonesIffRegisteredOnce ==
    /\ C20_CarriesIffRegistered
    /\ \A g \in Nodes : geometry[g].boneBuffers <= 1

====
